---------------------------- MODULE Spec2Model ----------------------------
(***************************************************************************)
(* Verification engine of emailify.                                        *)
(*                                                                         *)
(*   src/runner.py     TitanVerifier.deep_check, verification_worker,      *)
(*                     start_v  (queue / RESULTS / STATS dispatcher)       *)
(*   src/pythonrun.py  worker, verify (thread pool joined per request)     *)
(*                                                                         *)
(* Addresses are strings; a character is a string of length one.           *)
(* Three specifications share the module:                                  *)
(*   SpecDC            deep_check as a function of the address and of the  *)
(*                     replies of the network (DNS, SMTP)                  *)
(*   Spec, FairSpec    the dispatcher of runner.py                         *)
(*   SpecStream,       the dispatcher with the mailer flags and the        *)
(*   FairStream        /api/stream subscribers                             *)
(*   FairFault         the dispatcher with a worker thread that may die    *)
(*   SpecPool          the dispatcher after many earlier runs              *)
(*   SpecLock          the dispatcher, the mailer and /api/stream with     *)
(*                     every with LOCK block entered and left in steps     *)
(*   SpecPy            the thread pool of pythonrun.py                     *)
(***************************************************************************)
EXTENDS Integers, Sequences, FiniteSets, Bags, TLC

VARIABLES
    \* ---- deep_check evaluated on one input (SpecDC)
    dc_email,       \* the argument of deep_check
    dc_net,         \* what the network answers during the call
    dc_out,         \* the returned tuple (NoOut before the call returns)
    \* ---- runner.py
    VERIFY_QUEUE,   \* runner.py:37, FIFO of queued addresses
    RESULTS,        \* runner.py:39, list of verdict dicts
    STATS,          \* runner.py:40-45, the v_* counters and is_verifying
    inflight,       \* bag of addresses dequeued by a worker, verdict not yet appended
    nworkers,       \* number of live verification_worker threads
    run,            \* number of start_v calls so far (history)
    batch,          \* the strings in data['emails'] of the latest start_v call (history)
    SEND_QUEUE,     \* runner.py:38, number of queued recipients
    streams,        \* per /api/stream subscriber: the state of its generator
    LOCK,           \* runner.py:46, the threads inside a with LOCK block
    gen,            \* per /api/stream subscriber: the yield its generator is suspended at
    db,             \* the INSERTs into the table verified, in order (history)
    \* ---- pythonrun.py
    queue,          \* pythonrun.py:129
    results,        \* pythonrun.py:129
    threads,        \* per /verify request: where each of its worker threads is
    requests        \* per /verify request: "idle", "joining" or "returned"

dcvars  == <<dc_email, dc_net, dc_out>>
runvars == <<VERIFY_QUEUE, RESULTS, STATS, inflight, nworkers, run, batch>>
stvars  == <<SEND_QUEUE, streams>>
lkvars  == <<LOCK, gen, db>>
pyvars  == <<queue, results, threads, requests>>
vars    == <<dcvars, runvars, stvars, lkvars, pyvars>>

----------------------------------------------------------------------------
(* Strings *)

Ch(s, i) == SubSeq(s, i, i)

Chars(s) == {Ch(s, i) : i \in 1..Len(s)}

RECURSIVE Rep(_, _)
Rep(c, n) == IF n = 0 THEN "" ELSE c \o Rep(c, n - 1)

Digits == Chars("0123456789")
UpperCase == "ABCDEFGHIJKLMNOPQRSTUVWXYZ"
LowerCase == "abcdefghijklmnopqrstuvwxyz"

\* the characters str.strip() removes (the ASCII ones)
Whitespace == {" ", "\t", "\n", "\r"}

\* str.strip()
RECURSIVE lstrip(_)
lstrip(s) == IF Len(s) > 0 /\ Ch(s, 1) \in Whitespace THEN lstrip(Tail(s)) ELSE s

RECURSIVE rstrip(_)
rstrip(s) ==
    IF Len(s) > 0 /\ Ch(s, Len(s)) \in Whitespace
    THEN rstrip(SubSeq(s, 1, Len(s) - 1)) ELSE s

strip(s) == rstrip(lstrip(s))

\* str.lower() on ASCII letters
LowerMap ==
    [c \in Chars(UpperCase) |->
        Ch(LowerCase, CHOOSE i \in 1..26 : Ch(UpperCase, i) = c)]

RECURSIVE lower(_)
lower(s) ==
    IF s = "" THEN ""
    ELSE (IF Ch(s, 1) \in DOMAIN LowerMap THEN LowerMap[Ch(s, 1)] ELSE Ch(s, 1))
         \o lower(Tail(s))

\* positions of the character c in s
Positions(s, c) == {i \in 1..Len(s) : Ch(s, i) = c}

\* s.split(c) for a one-character separator
RECURSIVE split(_, _)
split(s, c) ==
    IF Positions(s, c) = {} THEN <<s>>
    ELSE LET i == CHOOSE k \in Positions(s, c) : \A j \in Positions(s, c) : k <= j
         IN  <<SubSeq(s, 1, i - 1)>> \o split(SubSeq(s, i + 1, Len(s)), c)

\* ", ".join(seq)
RECURSIVE join(_)
join(seq) ==
    IF Len(seq) = 0 THEN ""
    ELSE IF Len(seq) = 1 THEN seq[1]
    ELSE seq[1] \o ", " \o join(Tail(seq))

Max(a, b) == IF a >= b THEN a ELSE b
Min(a, b) == IF a <= b THEN a ELSE b


\* The printable ASCII characters from code 35 on, in code order (without the
\* grave accent, which cannot be written in a string here): the position of a
\* character orders it as its code point does.
AsciiTable ==
    "#$%&'()*+,-./0123456789:;<=>?@" \o UpperCase \o "[\\]^_" \o LowerCase \o "{|}~"

Ord(c) == CHOOSE i \in 1..Len(AsciiTable) : Ch(AsciiTable, i) = c

\* a < b for Python strings (lexicographic on code points)
RECURSIVE StrLess(_, _)
StrLess(a, b) ==
    IF b = "" THEN FALSE
    ELSE IF a = "" THEN TRUE
    ELSE IF Ch(a, 1) = Ch(b, 1) THEN StrLess(Tail(a), Tail(b))
    ELSE Ord(Ch(a, 1)) < Ord(Ch(b, 1))

----------------------------------------------------------------------------
(* runner.py: configuration and datasets *)

CONCURRENT_VERIFIERS == 50

ROLE_ACCOUNTS ==
    {"admin", "webmaster", "postmaster", "support", "sales", "contact", "info",
     "billing", "hr", "dev", "test", "null", "marketing", "no-reply", "noreply",
     "office", "staff", "jobs", "help", "account", "press"}

DISPOSABLE_DOMAINS ==
    {"mailinator.com", "yopmail.com", "tempmail.org", "guerrillamail.com",
     "10minutemail.com", "trashmail.com", "sharklasers.com", "getairmail.com",
     "maildrop.cc", "dispostable.com", "teleworm.us", "dayrep.com"}

COMMON_TYPOS ==
    [d \in {"gmial.com", "gmal.com", "gnail.com", "gmai.com", "hotmial.com",
            "outlok.com", "yaho.com", "icloud.co"} |->
        CASE d \in {"gmial.com", "gmal.com", "gnail.com", "gmai.com"} -> "gmail.com"
          [] d = "hotmial.com" -> "hotmail.com"
          [] d = "outlok.com"  -> "outlook.com"
          [] d = "yaho.com"    -> "yahoo.com"
          [] d = "icloud.co"   -> "icloud.com"]

HIGH_RISK_TLDS ==
    {".xyz", ".top", ".stream", ".icu", ".work", ".bid", ".date", ".win", ".loan"}

----------------------------------------------------------------------------
(* The network as deep_check sees it.                                      *)
(*                                                                         *)
(* A scenario fixes every reply the call can receive:                      *)
(*   mx      outcome of the MX query: ok, NoAnswer, NXDOMAIN, or Error     *)
(*           (a timeout and every other exception)                         *)
(*   answer  the MX records of an ok outcome, <<preference, exchange>>     *)
(*   txt     outcome of the TXT query: ok or fail                          *)
(*   fail_at the step of the SMTP session that raises, or none             *)
(*   exc     what is raised there: timeout (socket.timeout) or other       *)
(*   code    reply code of RCPT TO for the candidate                       *)
(*   f_code  reply code of RCPT TO for the random sibling address          *)
(*   now     str(time.time()) when the random sibling address is made      *)
(***************************************************************************)

SmtpSteps == <<"connect", "helo", "mail", "rcpt", "rcpt2", "quit">>

StepNo(step) == CHOOSE i \in 1..Len(SmtpSteps) : SmtpSteps[i] = step

\* the step named `step` completed without raising
StepDone(net, step) ==
    net.fail_at = "none" \/ StepNo(step) < StepNo(net.fail_at)

\* the step named `step` was attempted (completed or raised)
StepTried(net, step) ==
    net.fail_at = "none" \/ StepNo(step) <= StepNo(net.fail_at)

\* r.exchange.to_text().rstrip of the trailing dot
RECURSIVE rstripDot(_)
rstripDot(s) ==
    IF Len(s) > 0 /\ Ch(s, Len(s)) = "."
    THEN rstripDot(SubSeq(s, 1, Len(s) - 1)) ELSE s

TupleLess(x, y) == x[1] < y[1] \/ (x[1] = y[1] /\ StrLess(x[2], y[2]))

\* sorted(...) of a set of distinct <<preference, host>> tuples
RECURSIVE sorted(_)
sorted(S) ==
    IF S = {} THEN <<>>
    ELSE LET m == CHOOSE x \in S : \A y \in S \ {x} : TupleLess(x, y)
         IN  <<m>> \o sorted(S \ {m})

\* lines 147-148: hosts by ascending (preference, name)
MxHosts(answer) ==
    LET tuples == sorted({<<r[1], rstripDot(r[2])>> : r \in answer})
    IN  [i \in 1..Len(tuples) |-> tuples[i][2]]

----------------------------------------------------------------------------
(* runner.py: TitanVerifier.deep_check *)

\* the class of the regular expression of line 118 (the grave accent, also in
\* the class, cannot be written in a string here)
LocalChars ==
    Chars(UpperCase) \cup Chars(LowerCase) \cup Digits \cup Chars(".!#$%&'*+/=?^_{|}~-")

\* re.match(r"^[...]+$", user)
LocalOk(user) == Len(user) > 0 /\ \A i \in 1..Len(user) : Ch(user, i) \in LocalChars

\* sum(c.isdigit() for c in user)
digit_count(user) == Cardinality({i \in 1..Len(user) : Ch(user, i) \in Digits})

\* re.search(r"(.)\1\1", user)
TripleRepeat(user) ==
    \E i \in 1..(Len(user) - 2) :
        /\ Ch(user, i) # "\n"
        /\ Ch(user, i) = Ch(user, i + 1)
        /\ Ch(user, i) = Ch(user, i + 2)

\* "." + domain.split(".")[-1]
Tld(domain) == LET p == split(domain, ".") IN "." \o p[Len(p)]

\* score += delta; reasons.append(reason), when cond
Apply(st, cond, delta, reason) ==
    IF cond
    THEN [score |-> st.score + delta, reasons |-> Append(st.reasons, reason)]
    ELSE st

\* score += delta
Bump(st, delta) == [st EXCEPT !.score = st.score + delta]

\* the returned tuple (score, reasons, status, primary_mx), with what the call
\* did on the network: the DNS queries and the SMTP steps, in order
Ret(score, reasons, status, provider, dns, smtp, catchall) ==
    [score |-> score, reasons |-> reasons, status |-> status, provider |-> provider,
     dns |-> dns, smtp |-> smtp, is_catchall |-> catchall]

\* mutant: the length rule of line 116 fires one character late
Classify_lengthOffByOne(email, user, domain) ==
    LET s0 == [score |-> 100, reasons |-> <<>>]
        s1 == Apply(s0, Len(email) > 255, -40, "Total length exceeds RFC limit")
        s2 == Apply(s1, Len(user) > 64, -30, "Local-part length exceeds RFC limit")
        s3 == Apply(s2, ~LocalOk(user), -50, "Illegal characters in local-part")
        s4 == Apply(s3, domain \in DISPOSABLE_DOMAINS, -90, "Known Disposable Provider")
        s5 == Apply(s4, domain \in DOMAIN COMMON_TYPOS, -80,
                    "Likely Typo (Did you mean "
                       \o (IF domain \in DOMAIN COMMON_TYPOS
                           THEN COMMON_TYPOS[domain] ELSE "") \o "?)")
        s6 == Apply(s5, Tld(domain) \in HIGH_RISK_TLDS, -15,
                    "High-risk TLD reputation (" \o Tld(domain) \o ")")
        s7 == Apply(s6, lower(user) \in ROLE_ACCOUNTS, -20,
                    "Role-based/Departmental account")
        s8 == Apply(s7, digit_count(user) > 4, -25,
                    "High numerical density (Potential Bot)")
        s9 == Apply(s8, TripleRepeat(user), -10, "Triple character repetition")
    IN  s9

\* Groups 1-3, lines 116-141: the penalties read off the address alone
Classify(email, user, domain) ==
    LET s0 == [score |-> 100, reasons |-> <<>>]
        s1 == Apply(s0, Len(email) > 254, -40, "Total length exceeds RFC limit")
        s2 == Apply(s1, Len(user) > 64, -30, "Local-part length exceeds RFC limit")
        s3 == Apply(s2, ~LocalOk(user), -50, "Illegal characters in local-part")
        s4 == Apply(s3, domain \in DISPOSABLE_DOMAINS, -90, "Known Disposable Provider")
        s5 == Apply(s4, domain \in DOMAIN COMMON_TYPOS, -80,
                    "Likely Typo (Did you mean "
                       \o (IF domain \in DOMAIN COMMON_TYPOS
                           THEN COMMON_TYPOS[domain] ELSE "") \o "?)")
        s6 == Apply(s5, Tld(domain) \in HIGH_RISK_TLDS, -15,
                    "High-risk TLD reputation (" \o Tld(domain) \o ")")
        s7 == Apply(s6, lower(user) \in ROLE_ACCOUNTS, -20,
                    "Role-based/Departmental account")
        s8 == Apply(s7, digit_count(user) > 4, -25,
                    "High numerical density (Potential Bot)")
        s9 == Apply(s8, TripleRepeat(user), -10, "Triple character repetition")
    IN  s9

\* mutant: the session is not run in a with block, so a step that raises is
\* followed by neither QUIT nor close
SmtpSession_noClose(net) ==
    LET body == SelectSeq(<<"helo", "mail", "rcpt", "rcpt2">>,
                          LAMBDA c : StepTried(net, c))
    IN  IF net.fail_at = "connect" THEN <<"connect">>
        ELSE IF net.fail_at \in {"helo", "mail", "rcpt", "rcpt2"}
        THEN <<"connect">> \o body
        ELSE <<"connect">> \o body \o <<"quit", "close">>

\* Lines 168-185: the steps of the session on mxs[0], in order. A step that
\* raises inside the with block is followed by the QUIT and the close of
\* SMTP.__exit__; a constructor that raises leaves nothing to close.
SmtpSession(net) ==
    LET body == SelectSeq(<<"helo", "mail", "rcpt", "rcpt2">>,
                          LAMBDA c : StepTried(net, c))
    IN  IF net.fail_at = "connect" THEN <<"connect">>
        ELSE <<"connect">> \o body \o <<"quit", "close">>

\* hashlib.md5(str(time.time()).encode()).hexdigest()[:8], line 178, for the
\* clock readings of Clock
Md5Hex8 ==
    [t \in {"1700000000.25", "1700000001.5"} |->
        IF t = "1700000000.25" THEN "05e1177b" ELSE "b0cfba1e"]

Clock == DOMAIN Md5Hex8

\* line 178
random_user(now) == "verify_" \o Md5Hex8[now]

\* What a step of the session puts on the wire (smtplib: helo, mail, rcpt, and
\* the QUIT of SMTP.__exit__); connect and close send no command.
Wire(step, email, domain, host, now) ==
    CASE step = "connect" -> [verb |-> "", arg |-> host]
      [] step = "helo"    -> [verb |-> "helo", arg |-> "verify.titan-enterprise.com"]
      [] step = "mail"    -> [verb |-> "mail", arg |-> "FROM:<probe@titan-enterprise.com>"]
      [] step = "rcpt"    -> [verb |-> "rcpt", arg |-> "TO:<" \o email \o ">"]
      [] step = "rcpt2"   -> [verb |-> "rcpt",
                              arg |-> "TO:<" \o random_user(now) \o "@" \o domain \o ">"]
      [] step = "quit"    -> [verb |-> "QUIT", arg |-> ""]
      [] step = "close"   -> [verb |-> "", arg |-> ""]

\* mutant: the catch-all penalty of lines 195-196 is left out
Evaluate_noCatchAllPenalty(st, smtp_code, is_catchall, primary_mx, dns, smtp) ==
    IF smtp_code = 550
    THEN Ret(0, <<"User does not exist (Bounced)">>, "INVALID", primary_mx,
             dns, smtp, is_catchall)
    ELSE
    LET e1 == IF smtp_code = 250 THEN Bump(st, 20)
              ELSE Apply(st, smtp_code = 450 \/ smtp_code = 451, -20,
                         "Server Greylisting Active")
        final_score == Max(0, Min(100, e1.score))
        status == IF final_score < 30 THEN "INVALID"
                  ELSE IF final_score < 75 THEN "RISKY"
                  ELSE "VALID"
        reasons == IF e1.reasons = <<>>
                   THEN <<"Passed all intelligence checks">> ELSE e1.reasons
    IN  Ret(final_score, reasons, status, primary_mx, dns, smtp, is_catchall)

\* mutant: the score is returned as accumulated, without max(0, min(100, .))
Evaluate_noClamp(st, smtp_code, is_catchall, primary_mx, dns, smtp) ==
    IF smtp_code = 550
    THEN Ret(0, <<"User does not exist (Bounced)">>, "INVALID", primary_mx,
             dns, smtp, is_catchall)
    ELSE
    LET e1 == IF smtp_code = 250 THEN Bump(st, 20)
              ELSE Apply(st, smtp_code = 450 \/ smtp_code = 451, -20,
                         "Server Greylisting Active")
        e2 == Apply(e1, is_catchall, -40, "Catch-all Domain (Accepts everything)")
        final_score == e2.score
        status == IF final_score < 30 THEN "INVALID"
                  ELSE IF final_score < 75 THEN "RISKY"
                  ELSE "VALID"
        reasons == IF e2.reasons = <<>>
                   THEN <<"Passed all intelligence checks">> ELSE e2.reasons
    IN  Ret(final_score, reasons, status, primary_mx, dns, smtp, is_catchall)

\* mutant: the status is settled before the catch-all penalty is taken off
Evaluate_statusBeforeCatchAll(st, smtp_code, is_catchall, primary_mx, dns, smtp) ==
    IF smtp_code = 550
    THEN Ret(0, <<"User does not exist (Bounced)">>, "INVALID", primary_mx,
             dns, smtp, is_catchall)
    ELSE
    LET e1 == IF smtp_code = 250 THEN Bump(st, 20)
              ELSE Apply(st, smtp_code = 450 \/ smtp_code = 451, -20,
                         "Server Greylisting Active")
        e2 == Apply(e1, is_catchall, -40, "Catch-all Domain (Accepts everything)")
        final_score == Max(0, Min(100, e2.score))
        early_score == Max(0, Min(100, e1.score))
        status == IF early_score < 30 THEN "INVALID"
                  ELSE IF early_score < 75 THEN "RISKY"
                  ELSE "VALID"
        reasons == IF e2.reasons = <<>>
                   THEN <<"Passed all intelligence checks">> ELSE e2.reasons
    IN  Ret(final_score, reasons, status, primary_mx, dns, smtp, is_catchall)

\* Lines 187-206: the final evaluation
Evaluate(st, smtp_code, is_catchall, primary_mx, dns, smtp) ==
    IF smtp_code = 550
    THEN Ret(0, <<"User does not exist (Bounced)">>, "INVALID", primary_mx,
             dns, smtp, is_catchall)
    ELSE
    LET e1 == IF smtp_code = 250 THEN Bump(st, 20)
              ELSE Apply(st, smtp_code = 450 \/ smtp_code = 451, -20,
                         "Server Greylisting Active")
        e2 == Apply(e1, is_catchall, -40, "Catch-all Domain (Accepts everything)")
        final_score == Max(0, Min(100, e2.score))
        status == IF final_score < 30 THEN "INVALID"
                  ELSE IF final_score < 75 THEN "RISKY"
                  ELSE "VALID"
        reasons == IF e2.reasons = <<>>
                   THEN <<"Passed all intelligence checks">> ELSE e2.reasons
    IN  Ret(final_score, reasons, status, primary_mx, dns, smtp, is_catchall)

\* mutant: the catch-all flag is read off the random local part instead of
\* the reply to its RCPT
Probe_flagFromRandomPart(st, net) ==
    IF net.mx \in {"NoAnswer", "NXDOMAIN"}
    THEN Ret(0, <<"Domain does not exist or has no MX records">>, "INVALID", "N/A",
             <<"MX">>, <<>>, FALSE)
    ELSE
    LET mxs == IF net.mx = "ok" THEN MxHosts(net.answer) ELSE <<>>
        d1  == IF net.mx = "ok" THEN Bump(st, 10)
               ELSE Apply(st, TRUE, -20, "DNS Resolution Timeout/Error")
        d2  == IF net.txt = "ok" THEN Bump(d1, 5)
               ELSE Apply(d1, TRUE, -5, "Missing SPF/Security records")
        primary_mx == IF mxs # <<>> THEN mxs[1] ELSE "N/A"
        probed     == mxs # <<>>
        smtp_code  == IF probed /\ StepDone(net, "rcpt") THEN net.code ELSE 0
        is_catchall == /\ probed /\ StepDone(net, "rcpt2")
                       /\ Ch(random_user(net.now), 8) \in Digits
        raised     == probed /\ net.fail_at # "none"
        d3  == IF raised /\ net.exc = "timeout"
               THEN Apply(d2, TRUE, -30, "SMTP Server Timeout")
               ELSE Apply(d2, raised, -40, "Connection Refused: " \o net.exc)
    IN  Evaluate(d3, smtp_code, is_catchall, primary_mx, <<"MX", "TXT">>,
                 IF probed THEN SmtpSession(net) ELSE <<>>)

\* Groups 4-5, lines 143-185: the DNS and SMTP probes, then the evaluation
Probe(st, net) ==
    IF net.mx \in {"NoAnswer", "NXDOMAIN"}
    THEN Ret(0, <<"Domain does not exist or has no MX records">>, "INVALID", "N/A",
             <<"MX">>, <<>>, FALSE)
    ELSE
    LET mxs == IF net.mx = "ok" THEN MxHosts(net.answer) ELSE <<>>
        d1  == IF net.mx = "ok" THEN Bump(st, 10)
               ELSE Apply(st, TRUE, -20, "DNS Resolution Timeout/Error")
        d2  == IF net.txt = "ok" THEN Bump(d1, 5)
               ELSE Apply(d1, TRUE, -5, "Missing SPF/Security records")
        primary_mx == IF mxs # <<>> THEN mxs[1] ELSE "N/A"
        probed     == mxs # <<>>
        smtp_code  == IF probed /\ StepDone(net, "rcpt") THEN net.code ELSE 0
        is_catchall == probed /\ StepDone(net, "rcpt2") /\ net.f_code = 250
        raised     == probed /\ net.fail_at # "none"
        d3  == IF raised /\ net.exc = "timeout"
               THEN Apply(d2, TRUE, -30, "SMTP Server Timeout")
               ELSE Apply(d2, raised, -40, "Connection Refused: " \o net.exc)
    IN  Evaluate(d3, smtp_code, is_catchall, primary_mx, <<"MX", "TXT">>,
                 IF probed THEN SmtpSession(net) ELSE <<>>)

\* mutant: the test for a missing @ of line 109 is left out
deep_check_noAtTest(email, net) ==
    IF email = ""
    THEN Ret(0, <<"Malformed Address">>, "INVALID", "N/A", <<>>, <<>>, FALSE)
    ELSE
    LET parts == split(email, "@") IN
    IF Len(parts) # 2
    THEN Ret(0, <<"Multiple @ symbols">>, "INVALID", "N/A", <<>>, <<>>, FALSE)
    ELSE
    LET user   == strip(parts[1])
        domain == strip(parts[2])
    IN  Probe(Classify(email, user, domain), net)

deep_check(email, net) ==
    IF email = "" \/ Positions(email, "@") = {}
    THEN Ret(0, <<"Malformed Address">>, "INVALID", "N/A", <<>>, <<>>, FALSE)
    ELSE
    LET parts == split(email, "@") IN
    IF Len(parts) # 2
    THEN Ret(0, <<"Multiple @ symbols">>, "INVALID", "N/A", <<>>, <<>>, FALSE)
    ELSE
    LET user   == strip(parts[1])
        domain == strip(parts[2])
    IN  Probe(Classify(email, user, domain), net)

----------------------------------------------------------------------------
(* Inputs of deep_check *)

\* 64 and 65 characters, without digits or repetitions
Local64 == Rep("ab", 32)
Local65 == Local64 \o "c"

\* 254 and 255 characters in all, the local part within its own limit
Email254 == Local64 \o "@" \o Rep("cd", 92) \o "e.com"
Email255 == Local64 \o "@" \o Rep("cd", 92) \o "ef.com"

Emails ==
    {"john@gmail.com", "admin@example.com", "Admin@example.com",
     "bad-address", "a@b@c.com", "",
     "tmp@mailinator.com", "bob@gmial.com", "bob@spam.xyz",
     "user12345@example.com", "baaad@example.com",
     "jo hn@example.com", "jo hn@mailinator.com",
     Local64 \o "@example.com", Local65 \o "@example.com",
     Email254, Email255}

MxAnswers ==
    {{<<10, "mx1.example.com.">>},
     {<<20, "mx1.example.com.">>, <<10, "mx2.example.com.">>},
     {<<10, "mx2.example.com.">>, <<10, "mx1.example.com.">>}}

\* reply codes of RCPT TO: accepted, transient failures, permanent failures
Codes  == {250, 450, 451, 452, 550, 551, 553, 554}
FCodes == {250, 450, 550}

AllScenarios ==
    [mx : {"ok", "NoAnswer", "NXDOMAIN", "Error"}, answer : MxAnswers \cup {{}},
     txt : {"ok", "fail"},
     fail_at : {"connect", "helo", "mail", "rcpt", "rcpt2", "quit", "none"},
     exc : {"timeout", "other"}, code : Codes, f_code : FCodes, now : Clock]

\* One scenario for each behaviour: a reply the call never reads has one value.
Canonical(n) ==
    /\ (n.mx = "ok") = (n.answer # {})
    /\ n.mx # "ok" => n.fail_at = "none"
    /\ n.fail_at = "none" => n.exc = "other"
    /\ ~(n.mx = "ok" /\ StepDone(n, "rcpt")) => n.code = 250
    /\ ~(n.mx = "ok" /\ StepDone(n, "rcpt2")) => n.f_code = 550
    /\ ~(n.mx = "ok" /\ StepTried(n, "rcpt2")) => n.now = "1700000000.25"

Scenarios == {n \in AllScenarios : Canonical(n)}

NoOut == [status |-> "none"]

----------------------------------------------------------------------------
(* runner.py: the dispatcher (start_v, verification_worker) *)

MaxRuns  == 2       \* start_v calls in a behaviour
MaxBatch == 2       \* length of data['emails']

\* what a client may put in data['emails']
RawPool == {"a@x.io", "bad", " bad", "Bad", " "}

Batches == UNION {[1..n -> RawPool] : n \in 0..MaxBatch}

\* the replies of the network while a run is served: all is well, the domain
\* does not exist, every DNS query times out, the mail host refuses the
\* connection
NetOk ==
    [mx |-> "ok", answer |-> {<<10, "mx1.example.com.">>}, txt |-> "ok",
     fail_at |-> "none", exc |-> "other", code |-> 250, f_code |-> 550,
     now |-> "1700000000.25"]
NetNxDomain ==
    [mx |-> "NXDOMAIN", answer |-> {}, txt |-> "ok",
     fail_at |-> "none", exc |-> "other", code |-> 250, f_code |-> 550,
     now |-> "1700000000.25"]
NetDnsDown ==
    [mx |-> "Error", answer |-> {}, txt |-> "fail",
     fail_at |-> "none", exc |-> "other", code |-> 250, f_code |-> 550,
     now |-> "1700000000.25"]
NetSmtpRefused ==
    [mx |-> "ok", answer |-> {<<10, "mx1.example.com.">>}, txt |-> "fail",
     fail_at |-> "connect", exc |-> "other", code |-> 250, f_code |-> 550,
     now |-> "1700000000.25"]

RunScenarios == {NetOk, NetNxDomain, NetDnsDown, NetSmtpRefused}

\* mutant: the duplicates are removed before the addresses are trimmed
UniqueEmails_untrimmed(emails) ==
    {emails[i] : i \in {j \in 1..Len(emails) : strip(emails[j]) # ""}}

\* list(set([e.strip() for e in data['emails'] if e.strip()])), line 781, as a set
UniqueEmails(emails) ==
    {strip(emails[i]) : i \in {j \in 1..Len(emails) : strip(emails[j]) # ""}}

\* the orders in which list(set(...)) may enumerate the set S
Orders(S) ==
    LET n == Cardinality(S)
    IN  {o \in [1..n -> S] : \A i, j \in 1..n : o[i] = o[j] => i = j}

\* the threads start_v starts, line 785
Spawned(n) == Min(CONCURRENT_VERIFIERS, IF n = 0 THEN 1 ELSE n)

\* the verdict dict of lines 702-706 (without the wall-clock ts); `r` records
\* the run the address was submitted in
Verdict(item, out) ==
    [email |-> item.email, status |-> out.status, score |-> out.score,
     provider |-> out.provider, reasons |-> join(out.reasons), run |-> item.run]

\* the addresses a batch drawn from RawPool can queue
PoolEmails == {strip(e) : e \in RawPool} \ {""}

\* deep_check on the addresses and scenarios of the dispatcher, evaluated once
DeepCheckTable == [e \in PoolEmails, n \in RunScenarios |-> deep_check(e, n)]

\* TitanVerifier.deep_check(email), line 700
DeepCheckOf(email, net) ==
    IF email \in PoolEmails /\ net \in RunScenarios
    THEN DeepCheckTable[email, net] ELSE deep_check(email, net)

\* STATS[f"v_{status.lower()}"]
CounterOf(status) ==
    CASE status = "VALID"   -> "v_valid"
      [] status = "RISKY"   -> "v_risky"
      [] status = "INVALID" -> "v_invalid"

\* workers blocked in VERIFY_QUEUE.get
Idle == nworkers - BagCardinality(inflight)

\* mutant: start_v resets the counters and leaves RESULTS as it is
start_v_keepResults(emails, order) ==
    /\ run < MaxRuns
    /\ RESULTS' = RESULTS
    /\ STATS' = [STATS EXCEPT !.v_total = Len(order), !.v_done = 0, !.v_valid = 0,
                              !.v_risky = 0, !.v_invalid = 0, !.is_verifying = TRUE]
    /\ VERIFY_QUEUE' = VERIFY_QUEUE \o
                       [i \in 1..Len(order) |-> [email |-> order[i], run |-> run + 1]]
    /\ nworkers' = nworkers + Spawned(Len(order))
    /\ run' = run + 1
    /\ batch' = {emails[i] : i \in 1..Len(emails)}
    /\ UNCHANGED inflight

\* POST /api/verify, lines 776-787; `order` is the list(set(...)) of line 781
start_v(emails, order) ==
    /\ run < MaxRuns
    /\ RESULTS' = <<>>
    /\ STATS' = [STATS EXCEPT !.v_total = Len(order), !.v_done = 0, !.v_valid = 0,
                              !.v_risky = 0, !.v_invalid = 0, !.is_verifying = TRUE]
    /\ VERIFY_QUEUE' = VERIFY_QUEUE \o
                       [i \in 1..Len(order) |-> [email |-> order[i], run |-> run + 1]]
    /\ nworkers' = nworkers + Spawned(Len(order))
    /\ run' = run + 1
    /\ batch' = {emails[i] : i \in 1..Len(emails)}
    /\ UNCHANGED inflight

\* verification_worker, line 695: a worker takes the head of the queue
WorkerGet ==
    /\ Idle > 0
    /\ VERIFY_QUEUE # <<>>
    /\ inflight' = inflight (+) SetToBag({Head(VERIFY_QUEUE)})
    /\ VERIFY_QUEUE' = Tail(VERIFY_QUEUE)
    /\ UNCHANGED <<RESULTS, STATS, nworkers, run, batch>>

\* verification_worker, lines 695-698: the get times out on an empty queue;
\* the worker leaves only when is_verifying is false
WorkerTimeout ==
    /\ Idle > 0
    /\ VERIFY_QUEUE = <<>>
    /\ nworkers' = IF ~STATS.is_verifying THEN nworkers - 1 ELSE nworkers
    /\ UNCHANGED <<VERIFY_QUEUE, RESULTS, STATS, inflight, run, batch>>

\* mutant: a resolver error escapes deep_check and ends the worker thread,
\* which takes the address with it
WorkerAppend_crash(item, net) ==
    /\ BagIn(item, inflight)
    /\ inflight' = inflight (-) SetToBag({item})
    /\ IF net.mx = "Error"
       THEN /\ nworkers' = nworkers - 1
            /\ UNCHANGED <<RESULTS, STATS>>
       ELSE /\ LET out == DeepCheckOf(item.email, net)
                   c   == CounterOf(out.status)
               IN  /\ RESULTS' = Append(RESULTS, Verdict(item, out))
                   /\ STATS' = [STATS EXCEPT !.v_done = @ + 1, ![c] = @ + 1]
            /\ UNCHANGED nworkers
    /\ UNCHANGED <<VERIFY_QUEUE, run, batch>>

\* verification_worker, lines 700-721: deep_check, which reads no shared state,
\* then the critical section under LOCK (the database insert and task_done
\* change nothing modelled here)
WorkerAppend(item, net) ==
    /\ BagIn(item, inflight)
    /\ LET out == DeepCheckOf(item.email, net)
           c   == CounterOf(out.status)
       IN  /\ RESULTS' = Append(RESULTS, Verdict(item, out))
           /\ STATS' = [STATS EXCEPT !.v_done = @ + 1, ![c] = @ + 1]
    /\ inflight' = inflight (-) SetToBag({item})
    /\ UNCHANGED <<VERIFY_QUEUE, nworkers, run, batch>>

InitRun ==
    /\ VERIFY_QUEUE = <<>>
    /\ RESULTS = <<>>
    /\ STATS = [v_total |-> 0, v_done |-> 0, v_valid |-> 0, v_risky |-> 0,
                v_invalid |-> 0, s_total |-> 0, s_done |-> 0,
                is_verifying |-> FALSE, is_sending |-> FALSE]
    /\ inflight = EmptyBag
    /\ nworkers = 0
    /\ run = 0
    /\ batch = {}

\* a worker thread dies between the get of line 695 and the append of line
\* 709: nothing in verification_worker or start_v catches it, requeues the
\* address or starts another thread
WorkerDie(item) ==
    /\ BagIn(item, inflight)
    /\ inflight' = inflight (-) SetToBag({item})
    /\ nworkers' = nworkers - 1
    /\ UNCHANGED <<VERIFY_QUEUE, RESULTS, STATS, run, batch>>

----------------------------------------------------------------------------
(* runner.py: the mailer flags (start_s, sending_worker) and /api/stream *)

MaxSubs == 1        \* /api/stream subscribers in a behaviour
MaxRcpt == 1        \* distinct recipients of a start_s call

\* POST /api/send, lines 790-799, with n distinct non-blank recipients
start_s(n) ==
    /\ ~STATS.is_sending
    /\ STATS' = [STATS EXCEPT !.s_total = n, !.s_done = 0, !.is_sending = TRUE]
    /\ SEND_QUEUE' = SEND_QUEUE + n
    /\ UNCHANGED <<VERIFY_QUEUE, RESULTS, inflight, nworkers, run, batch, streams>>

\* sending_worker, lines 725-756: one recipient taken and counted, whether
\* the mail was sent or failed; is_sending is never reset
SendOne ==
    /\ SEND_QUEUE > 0
    /\ SEND_QUEUE' = SEND_QUEUE - 1
    /\ STATS' = [STATS EXCEPT !.s_done = @ + 1]
    /\ UNCHANGED <<VERIFY_QUEUE, RESULTS, inflight, nworkers, run, batch, streams>>

\* a generator: not yet requested, or running with its cursor sent_results
\* and the result events it has yielded; `log` records the verdicts appended
\* to RESULTS while it was running (history)
NoStream == [state |-> "none", sent_results |-> 0, delivered |-> <<>>, log |-> <<>>]

\* GET /api/stream, lines 803-805
stream_open(i) ==
    /\ streams[i].state = "none"
    /\ streams' = [streams EXCEPT ![i].state = "open"]
    /\ UNCHANGED <<runvars, SEND_QUEUE>>

\* lines 819-822
v_finished == STATS.v_done >= STATS.v_total /\ STATS.v_total > 0
s_finished == STATS.s_done >= STATS.s_total /\ STATS.s_total > 0

\* One turn of the loop of gen, lines 806-824. LOCK is held from the read of
\* RESULTS to the test that ends the loop, so the turn is one step for the
\* workers and for start_v. The stats event of line 816 changes nothing.
stream_poll(i) ==
    /\ streams[i].state = "open"
    /\ LET sub   == streams[i]
           more  == sub.sent_results < Len(RESULTS)
           fresh == IF more THEN SubSeq(RESULTS, sub.sent_results + 1, Len(RESULTS))
                    ELSE <<>>
           brk   == (v_finished /\ ~STATS.is_sending) \/ (v_finished /\ s_finished)
       IN  streams' = [streams EXCEPT ![i] =
                          [state |-> IF brk THEN "closed" ELSE "open",
                           sent_results |-> IF more THEN Len(RESULTS) ELSE sub.sent_results,
                           delivered |-> sub.delivered \o fresh,
                           log |-> sub.log]]
    /\ UNCHANGED <<runvars, SEND_QUEUE>>

\* the verdict a worker appends is noted for every running generator
Logged ==
    streams' = [i \in 1..MaxSubs |->
                   IF streams[i].state = "open"
                   THEN [streams[i] EXCEPT !.log = Append(@, RESULTS'[Len(RESULTS')])]
                   ELSE streams[i]]

InitStream ==
    /\ SEND_QUEUE = 0
    /\ streams = [i \in 1..MaxSubs |-> NoStream]

----------------------------------------------------------------------------
(* runner.py: the with LOCK blocks, entered and left in separate steps *)

\* a thread that can be inside a with LOCK block: the handler of start_v or
\* start_s, the sending_worker, the verification_worker that holds an item,
\* the generator of a subscriber
Handler(who)   == [who |-> who, email |-> "", n |-> 0]
WorkerOf(item) == [who |-> "verification_worker", email |-> item.email, n |-> item.run]
GenOf(i)       == [who |-> "gen", email |-> "", n |-> i]

\* mutant: a with block that does not wait for the lock
Enter_noWait(t) ==
    /\ t \notin LOCK
    /\ LOCK' = LOCK \cup {t}

\* threading.Lock.__enter__: the thread waits until no thread holds LOCK
Enter(t) ==
    /\ LOCK = {}
    /\ LOCK' = {t}

\* threading.Lock.__exit__
Leave(t) ==
    /\ t \in LOCK
    /\ LOCK' = LOCK \ {t}

\* a generator that is not inside its with block
NotInBlock == [at |-> "none", k |-> 0]

\* start_v, line 779
start_v_lock ==
    /\ run < MaxRuns
    /\ Enter(Handler("start_v"))
    /\ UNCHANGED <<runvars, stvars, gen, db>>

\* start_s, line 794
start_s_lock ==
    /\ ~STATS.is_sending
    /\ Enter(Handler("start_s"))
    /\ UNCHANGED <<runvars, stvars, gen, db>>

\* sending_worker, line 755
sending_worker_lock ==
    /\ SEND_QUEUE > 0
    /\ Enter(Handler("sending_worker"))
    /\ UNCHANGED <<runvars, stvars, gen, db>>

\* verification_worker, line 708: deep_check has returned
verification_worker_lock(item) ==
    /\ BagIn(item, inflight)
    /\ Enter(WorkerOf(item))
    /\ UNCHANGED <<runvars, stvars, gen, db>>

\* mutant: the exception of a failed INSERT leaves the with block and ends
\* the worker thread
Insert_uncaught(item, ok) ==
    /\ db' = Append(db, [email |-> item.email, run |-> item.run, at |-> run, ok |-> ok])
    /\ nworkers' = IF ok THEN nworkers ELSE nworkers - 1

\* verification_worker, lines 713-719: the INSERT into verified, which
\* succeeds or raises; whatever is raised is passed over
Insert(item, ok) ==
    /\ db' = Append(db, [email |-> item.email, run |-> item.run, at |-> run, ok |-> ok])
    /\ nworkers' = nworkers

\* mutant: the verdict is put at the head of RESULTS
verification_worker_locked_prepend(item, net, ok) ==
    /\ WorkerOf(item) \in LOCK
    /\ BagIn(item, inflight)
    /\ LET out == DeepCheckOf(item.email, net)
           c   == CounterOf(out.status)
       IN  /\ RESULTS' = <<Verdict(item, out)>> \o RESULTS
           /\ STATS' = [STATS EXCEPT !.v_done = @ + 1, ![c] = @ + 1]
    /\ Insert(item, ok)
    /\ inflight' = inflight (-) SetToBag({item})
    /\ Leave(WorkerOf(item))
    /\ UNCHANGED <<VERIFY_QUEUE, run, batch, SEND_QUEUE, gen>>

\* verification_worker, lines 709-719, inside the with block: the append,
\* the counters, the INSERT; then the block is left
verification_worker_locked(item, net, ok) ==
    /\ WorkerOf(item) \in LOCK
    /\ BagIn(item, inflight)
    /\ LET out == DeepCheckOf(item.email, net)
           c   == CounterOf(out.status)
       IN  /\ RESULTS' = Append(RESULTS, Verdict(item, out))
           /\ STATS' = [STATS EXCEPT !.v_done = @ + 1, ![c] = @ + 1]
    /\ Insert(item, ok)
    /\ inflight' = inflight (-) SetToBag({item})
    /\ Leave(WorkerOf(item))
    /\ UNCHANGED <<VERIFY_QUEUE, run, batch, SEND_QUEUE, gen>>

\* gen, lines 807-816: the generator enters the with block and runs to its
\* first yield, where it stays until the consumer asks for the next event:
\* the first new result (line 811) or, with no new result, the stats event
\* (line 816). RESULTS cannot change while the generator is inside the
\* block, so the slice of line 810 is kept as the index k of the result
\* being handed out. (The events handed out are recorded in SpecStream.)
stream_enter(i) ==
    /\ streams[i].state = "open"
    /\ gen[i].at = "none"
    /\ Enter(GenOf(i))
    /\ gen' = [gen EXCEPT ![i] =
                  IF streams[i].sent_results < Len(RESULTS)
                  THEN [at |-> "result", k |-> streams[i].sent_results + 1]
                  ELSE [at |-> "stats", k |-> 0]]
    /\ UNCHANGED <<runvars, stvars, db>>

\* gen, lines 811-824: the consumer asks for the next event and the generator
\* runs to its next yield, or past the test of line 822 out of the block
stream_next(i) ==
    /\ gen[i].at # "none"
    /\ GenOf(i) \in LOCK
    /\ IF gen[i].at = "result" /\ gen[i].k < Len(RESULTS)
       THEN /\ gen' = [gen EXCEPT ![i].k = @ + 1]
            /\ UNCHANGED <<streams, LOCK>>
       ELSE IF gen[i].at = "result"
       THEN /\ streams' = [streams EXCEPT ![i].sent_results = Len(RESULTS)]
            /\ gen' = [gen EXCEPT ![i] = [at |-> "stats", k |-> 0]]
            /\ UNCHANGED LOCK
       ELSE /\ LET brk == (v_finished /\ ~STATS.is_sending) \/ (v_finished /\ s_finished)
               IN  streams' = [streams EXCEPT ![i].state = IF brk THEN "closed" ELSE "open"]
            /\ gen' = [gen EXCEPT ![i] = NotInBlock]
            /\ Leave(GenOf(i))
    /\ UNCHANGED <<runvars, SEND_QUEUE, db>>

InitLock ==
    /\ LOCK = {}
    /\ gen = [i \in 1..MaxSubs |-> NotInBlock]
    /\ db = <<>>

----------------------------------------------------------------------------
(* pythonrun.py *)

MAX_THREADS == 5

MaxReqs  == 2       \* /verify requests in a behaviour
MaxLines == 1       \* lines of an uploaded file

PY_ROLE_ACCOUNTS == {"admin", "info", "support", "sales", "contact", "abuse"}

Letters == Chars(UpperCase) \cup Chars(LowerCase)

PyLocalChars  == Letters \cup Digits \cup Chars("._%+-")
PyDomainChars == Letters \cup Digits \cup Chars(".-")

\* EMAIL_REGEX, line 24. In the raw string the two backslashes before the dot
\* are an escaped backslash followed by an unescaped dot: the domain must hold
\* a backslash, then any character but a newline, then two letters or more.
syntax_ok(e) ==
    \E i, j \in 1..Len(e) :
        /\ i >= 2
        /\ \A k \in 1..(i - 1) : Ch(e, k) \in PyLocalChars
        /\ Ch(e, i) = "@"
        /\ j >= i + 2
        /\ \A k \in (i + 1)..(j - 1) : Ch(e, k) \in PyDomainChars
        /\ Ch(e, j) = "\\"
        /\ Len(e) >= j + 3
        /\ Ch(e, j + 1) # "\n"
        /\ \A k \in (j + 2)..Len(e) : Ch(e, k) \in Letters

\* role_check, line 103
role_check(e) == lower(split(e, "@")[1]) \in PY_ROLE_ACCOUNTS

\* risk_score, lines 119-124
risk_score(code, role) ==
    LET s1 == IF code = 250 THEN 50 + 30 ELSE 50
        s2 == IF role THEN s1 - 15 ELSE s1
        s3 == IF code \in {550, 551, 553} THEN 5 ELSE s2
    IN  Max(0, Min(100, s3))

\* res, line 148; `req` records the request that queued the address
res(e, s, c, rk, rs, req) ==
    [email |-> e, status |-> s, code |-> c, role |-> rk, risk |-> rs, req |-> req]

\* what the network answers to one address: whether mx_lookup finds a host,
\* and the code smtp_probe returns (0 when the session fails)
PyNets == {[mx |-> FALSE, code |-> 0], [mx |-> TRUE, code |-> 0],
           [mx |-> TRUE, code |-> 250]}

\* lines 134-144: the result a worker appends for the address e
PyResult(e, net, req) ==
    IF ~syntax_ok(e) THEN res(e, "INVALID", "SYNTAX", "NO", 5, req)
    ELSE IF ~net.mx THEN res(e, "INVALID", "NO_MX", "NO", 5, req)
    ELSE LET role == role_check(e)
             risk == risk_score(net.code, role)
             status == IF risk > 70 THEN "VALID"
                       ELSE IF risk > 20 THEN "RISKY" ELSE "INVALID"
         IN  res(e, status, net.code, IF role THEN "YES" ELSE "NO", risk, req)

\* the lines of an uploaded file
LinePool == {"a@b\\xcom", " x@y.z ", ""}

Files == UNION {[1..n -> LinePool] : n \in 0..MaxLines}

\* [e.strip() for e in lines if e.strip()], lines 160-161
Stripped(lines) ==
    LET keep == SelectSeq(lines, LAMBDA e : strip(e) # "")
    IN  [i \in 1..Len(keep) |-> strip(keep[i])]

\* done and slept count the addresses the threads of the request completed
\* and the time.sleep calls of line 145 they made, put is the list of the
\* addresses the request queued (history)
NoThreads == [loop |-> 0, get |-> 0, exited |-> 0, work |-> EmptyBag,
              done |-> 0, slept |-> 0, put |-> <<>>]

\* the items queue.put adds for a request; each carries the request that
\* queued it (history: the queue of the program holds the address alone)
Queued(r, lines) ==
    [i \in 1..Len(Stripped(lines)) |-> [email |-> Stripped(lines)[i], req |-> r]]

\* POST /verify, lines 157-163: clear the results, queue the lines, start the
\* threads (the joins are PyReturn). The results and the queue are the
\* module's globals: a request starts whatever the earlier ones are doing.
verify(r, lines) ==
    /\ requests[r] = "idle"
    /\ \A q \in 1..(r - 1) : requests[q] # "idle"
    /\ results' = <<>>
    /\ queue' = queue \o Queued(r, lines)
    /\ threads' = [threads EXCEPT ![r] = [NoThreads EXCEPT !.loop = MAX_THREADS,
                                                           !.put = Stripped(lines)]]
    /\ requests' = [requests EXCEPT ![r] = "joining"]

\* worker, line 132: a thread tests queue.empty()
PyLoopTest(r) ==
    /\ threads[r].loop > 0
    /\ threads' = [threads EXCEPT ![r] =
                      IF queue = <<>>
                      THEN [@ EXCEPT !.loop = @ - 1, !.exited = @ + 1]
                      ELSE [@ EXCEPT !.loop = @ - 1, !.get = @ + 1]]
    /\ UNCHANGED <<queue, results, requests>>

\* worker, line 133: queue.get() returns once the queue holds an item
PyGet(r) ==
    /\ threads[r].get > 0
    /\ queue # <<>>
    /\ threads' = [threads EXCEPT ![r] =
                      [@ EXCEPT !.get = @ - 1,
                                !.work = @ (+) SetToBag({Head(queue)})]]
    /\ queue' = Tail(queue)
    /\ UNCHANGED <<results, requests>>

\* line 145 is reached when neither continue of lines 135 and 139 is taken
PySleeps(e, net) == syntax_ok(e) /\ net.mx

\* worker, lines 134-146: the checks, results.append, the sleep unless a
\* continue skipped it, back to the loop test
PyWork(r, it, net) ==
    /\ BagIn(it, threads[r].work)
    /\ results' = Append(results, PyResult(it.email, net, it.req))
    /\ threads' = [threads EXCEPT ![r] =
                      [@ EXCEPT !.work = @ (-) SetToBag({it}), !.loop = @ + 1,
                                !.done = @ + 1,
                                !.slept = IF PySleeps(it.email, net) THEN @ + 1 ELSE @]]
    /\ UNCHANGED <<queue, requests>>

\* verify, lines 164-165: every join has returned
PyReturn(r) ==
    /\ requests[r] = "joining"
    /\ threads[r].exited = MAX_THREADS
    /\ requests' = [requests EXCEPT ![r] = "returned"]
    /\ UNCHANGED <<queue, results, threads>>

InitPy ==
    /\ queue = <<>>
    /\ results = <<>>
    /\ threads = [r \in 1..MaxReqs |-> NoThreads]
    /\ requests = [r \in 1..MaxReqs |-> "idle"]

----------------------------------------------------------------------------
(* Specifications *)

InitIdleDC ==
    /\ dc_email = ""
    /\ dc_net = NetOk
    /\ dc_out = NoOut

\* deep_check on every address and every scenario
InitDC ==
    /\ dc_email \in Emails
    /\ dc_net \in Scenarios
    /\ dc_out = NoOut
    /\ InitRun
    /\ InitStream
    /\ InitLock
    /\ InitPy

DeepCheckCall ==
    /\ dc_out = NoOut
    /\ dc_out' = deep_check(dc_email, dc_net)
    /\ UNCHANGED <<dc_email, dc_net, runvars, stvars, lkvars, pyvars>>

NextDC == DeepCheckCall

SpecDC == InitDC /\ [][NextDC]_vars

\* the dispatcher of runner.py
Init == InitIdleDC /\ InitRun /\ InitStream /\ InitLock /\ InitPy

\* line 781 for every batch, evaluated once
EmailLists == [emails \in Batches |-> Orders(UniqueEmails(emails))]

StartV ==
    /\ run < MaxRuns
    /\ \E emails \in Batches : \E order \in EmailLists[emails] : start_v(emails, order)

Get == WorkerGet

Timeout == WorkerTimeout

Items == [email : PoolEmails, run : 1..MaxRuns]

AppendOf(item) == \E net \in RunScenarios : WorkerAppend(item, net)

AppendV == \E item \in Items : AppendOf(item)

Next ==
    \/ StartV /\ UNCHANGED <<dcvars, stvars, lkvars, pyvars>>
    \/ Get /\ UNCHANGED <<dcvars, stvars, lkvars, pyvars>>
    \/ Timeout /\ UNCHANGED <<dcvars, stvars, lkvars, pyvars>>
    \/ AppendV /\ UNCHANGED <<dcvars, stvars, lkvars, pyvars>>

Spec == Init /\ [][Next]_vars

\* Every worker thread is scheduled again and again, and every network call
\* of deep_check returns or times out (timeout=5, timeout=2, SMTP_TIMEOUT).
FairSpec ==
    /\ Spec
    /\ WF_vars(Get /\ UNCHANGED <<dcvars, stvars, lkvars, pyvars>>)
    /\ \A item \in Items :
          WF_vars(AppendOf(item) /\ UNCHANGED <<dcvars, stvars, lkvars, pyvars>>)

\* the dispatcher with a worker thread that may die
Die == \E item \in Items : WorkerDie(item)

NextFault ==
    \/ Next
    \/ Die /\ UNCHANGED <<dcvars, stvars, lkvars, pyvars>>

\* The threads that live are scheduled; nothing says a thread must die.
FairFault ==
    /\ Init /\ [][NextFault]_vars
    /\ WF_vars(Get /\ UNCHANGED <<dcvars, stvars, lkvars, pyvars>>)
    /\ \A item \in Items :
          WF_vars(AppendOf(item) /\ UNCHANGED <<dcvars, stvars, lkvars, pyvars>>)

\* the dispatcher with the mailer flags and the /api/stream subscribers
StartS == \E n \in 0..MaxRcpt : start_s(n)

StreamOpen == \E i \in 1..MaxSubs : stream_open(i)

StreamPoll == \E i \in 1..MaxSubs : stream_poll(i)

NextStream ==
    \/ StartV /\ UNCHANGED <<dcvars, stvars, lkvars, pyvars>>
    \/ Get /\ UNCHANGED <<dcvars, stvars, lkvars, pyvars>>
    \/ Timeout /\ UNCHANGED <<dcvars, stvars, lkvars, pyvars>>
    \/ AppendV /\ Logged /\ UNCHANGED <<dcvars, SEND_QUEUE, lkvars, pyvars>>
    \/ StartS /\ UNCHANGED <<dcvars, lkvars, pyvars>>
    \/ SendOne /\ UNCHANGED <<dcvars, lkvars, pyvars>>
    \/ StreamOpen /\ UNCHANGED <<dcvars, lkvars, pyvars>>
    \/ StreamPoll /\ UNCHANGED <<dcvars, lkvars, pyvars>>

SpecStream == Init /\ [][NextStream]_vars

\* the dispatcher after k earlier POST /api/verify with an empty list, all
\* of them served: each started min(CONCURRENT_VERIFIERS, 0 or 1) = 1 thread
\* and queued nothing, and no thread has left since is_verifying stays true;
\* run and batch record the calls from here on
InitPool ==
    /\ InitIdleDC /\ InitStream /\ InitLock /\ InitPy
    /\ \E k \in {0, CONCURRENT_VERIFIERS - 1, CONCURRENT_VERIFIERS} :
          /\ nworkers = k * Spawned(0)
          /\ STATS = [v_total |-> 0, v_done |-> 0, v_valid |-> 0, v_risky |-> 0,
                      v_invalid |-> 0, s_total |-> 0, s_done |-> 0,
                      is_verifying |-> (k > 0), is_sending |-> FALSE]
    /\ VERIFY_QUEUE = <<>>
    /\ RESULTS = <<>>
    /\ inflight = EmptyBag
    /\ run = 0
    /\ batch = {}

SpecPool == InitPool /\ [][Next]_vars

\* the dispatcher, the mailer and /api/stream, lock by lock
LockStartV == start_v_lock

DoStartV ==
    /\ StartV
    /\ Leave(Handler("start_v"))
    /\ UNCHANGED <<stvars, gen, db>>

LockStartS == start_s_lock

DoStartS ==
    /\ StartS
    /\ Leave(Handler("start_s"))
    /\ UNCHANGED <<gen, db>>

LockSend == sending_worker_lock

DoSend ==
    /\ SendOne
    /\ Leave(Handler("sending_worker"))
    /\ UNCHANGED <<gen, db>>

LockAppend == \E item \in Items : verification_worker_lock(item)

\* the replies of the network play no part in the locking: all is well
DoAppend ==
    \E item \in Items : \E net \in {NetOk} : \E ok \in BOOLEAN :
        verification_worker_locked(item, net, ok) /\ UNCHANGED streams

StreamEnter == \E i \in 1..MaxSubs : stream_enter(i)

StreamNext == \E i \in 1..MaxSubs : stream_next(i)

NextLock ==
    \/ LockStartV /\ UNCHANGED <<dcvars, pyvars>>
    \/ DoStartV /\ UNCHANGED <<dcvars, pyvars>>
    \/ Get /\ UNCHANGED <<dcvars, stvars, lkvars, pyvars>>
    \/ Timeout /\ UNCHANGED <<dcvars, stvars, lkvars, pyvars>>
    \/ LockAppend /\ UNCHANGED <<dcvars, pyvars>>
    \/ DoAppend /\ UNCHANGED <<dcvars, pyvars>>
    \/ LockStartS /\ UNCHANGED <<dcvars, pyvars>>
    \/ DoStartS /\ UNCHANGED <<dcvars, pyvars>>
    \/ LockSend /\ UNCHANGED <<dcvars, pyvars>>
    \/ DoSend /\ UNCHANGED <<dcvars, pyvars>>
    \/ StreamOpen /\ UNCHANGED <<dcvars, lkvars, pyvars>>
    \/ StreamEnter /\ UNCHANGED <<dcvars, pyvars>>
    \/ StreamNext /\ UNCHANGED <<dcvars, pyvars>>

SpecLock == Init /\ [][NextLock]_vars

\* Worker, mailer and generator threads are scheduled again and again.
FairStream ==
    /\ SpecStream
    /\ WF_vars(Get /\ UNCHANGED <<dcvars, stvars, lkvars, pyvars>>)
    /\ \A item \in Items :
          WF_vars(AppendOf(item) /\ Logged /\ UNCHANGED <<dcvars, SEND_QUEUE, lkvars, pyvars>>)
    /\ WF_vars(SendOne /\ UNCHANGED <<dcvars, lkvars, pyvars>>)
    /\ \A i \in 1..MaxSubs : WF_vars(stream_poll(i) /\ UNCHANGED <<dcvars, lkvars, pyvars>>)

\* the thread pool of pythonrun.py
PyVerify == \E r \in 1..MaxReqs : \E lines \in Files : verify(r, lines)

\* the items the queue can hold
PyItems == [email : {strip(l) : l \in LinePool} \ {""}, req : 1..MaxReqs]

PyThreadStep ==
    \E r \in 1..MaxReqs :
        \/ PyLoopTest(r)
        \/ PyGet(r)
        \/ \E it \in PyItems : \E net \in PyNets : PyWork(r, it, net)
        \/ PyReturn(r)

NextPy ==
    \/ PyVerify /\ UNCHANGED <<dcvars, runvars, stvars, lkvars>>
    \/ PyThreadStep /\ UNCHANGED <<dcvars, runvars, stvars, lkvars>>

SpecPy == Init /\ [][NextPy]_vars

----------------------------------------------------------------------------
(* Properties of deep_check *)

DcDone == dc_out # NoOut

SeqHas(seq, x) == \E i \in 1..Len(seq) : seq[i] = x

\* the address passes the two structural tests of lines 109-112
WellFormed(email) == email # "" /\ Len(split(email, "@")) = 2

\* the rules of groups 1-3 that fire for a well-formed address
ClassifierReasons(email) ==
    LET parts == split(email, "@")
    IN  Classify(email, strip(parts[1]), strip(parts[2])).reasons

\* the call ran the whole SMTP session: both RCPT replies were read
BothProbesAnswered ==
    /\ DcDone
    /\ SeqHas(dc_out.smtp, "rcpt2")
    /\ dc_net.fail_at \in {"quit", "none"}

\* C6: when the MX query yields no mail host (NXDOMAIN, no answer, timeout or
\* any other resolver error) the verdict is INVALID and no SMTP session is
\* opened.
C6_NoMailHostIsInvalid ==
    (DcDone /\ SeqHas(dc_out.dns, "MX") /\ dc_net.mx # "ok") =>
        (dc_out.status = "INVALID" /\ dc_out.smtp = <<>>)

\* C7: a permanent-failure reply (550, 551, 553, 554) to the RCPT of the
\* candidate gives INVALID, whatever the other signals are.
C7_PermanentFailureIsInvalid ==
    (/\ DcDone
     /\ SeqHas(dc_out.smtp, "rcpt")
     /\ StepDone(dc_net, "rcpt")
     /\ dc_net.code \in {550, 551, 553, 554}) =>
        dc_out.status = "INVALID"

\* C8: an address no classifier rule fires for, with a mail host and 250 on
\* both the candidate and the random address, is RISKY.
C8_CatchAllIsRisky ==
    (/\ DcDone
     /\ WellFormed(dc_email)
     /\ ClassifierReasons(dc_email) = <<>>
     /\ dc_net.mx = "ok" /\ dc_net.fail_at = "none"
     /\ dc_net.code = 250 /\ dc_net.f_code = 250) =>
        dc_out.status = "RISKY"

\* C9: a role account with no other classifier penalty, a mail host, 250 for
\* the candidate and a rejected random address, is RISKY with a score in
\* the RISKY band.
C9_RoleAccountIsRisky ==
    (/\ DcDone
     /\ WellFormed(dc_email)
     /\ ClassifierReasons(dc_email) = <<"Role-based/Departmental account">>
     /\ dc_net.mx = "ok" /\ dc_net.fail_at = "none"
     /\ dc_net.code = 250 /\ dc_net.f_code # 250) =>
        (dc_out.status = "RISKY" /\ dc_out.score >= 30 /\ dc_out.score < 75)

\* the same call with the random address rejected with the code c
WithoutCatchAll(c) == deep_check(dc_email, [dc_net EXCEPT !.f_code = c])

\* C10 as claimed: with 250 for the random address the call is flagged
\* catch-all and scores strictly lower than the same call with any other
\* reply to the random address.
C10_CatchAllStrictlyLower ==
    (BothProbesAnswered /\ dc_net.f_code = 250) =>
        /\ dc_out.is_catchall
        /\ \A c \in FCodes \ {250} : dc_out.score < WithoutCatchAll(c).score

\* C10 as amended: the call is flagged catch-all and never scores higher;
\* when the other call scores above 0, it scores strictly lower and reports
\* the catch-all reason; when the other call scores 0, so does it.
C10_CatchAllLowerUnlessZero ==
    (BothProbesAnswered /\ dc_net.f_code = 250) =>
        /\ dc_out.is_catchall
        /\ \A c \in FCodes \ {250} :
              LET other == WithoutCatchAll(c)
              IN  /\ ~other.is_catchall
                  /\ dc_out.score <= other.score
                  /\ other.score > 0 =>
                        /\ dc_out.score < other.score
                        /\ SeqHas(dc_out.reasons, "Catch-all Domain (Accepts everything)")
                  /\ other.score = 0 => dc_out.score = 0

\* a catch-all domain: 95 for an address that scores 100 otherwise
C10_Witness ==
    /\ BothProbesAnswered /\ dc_net.f_code = 250
    /\ dc_out.is_catchall
    /\ dc_out.score = 95
    /\ \A c \in FCodes \ {250} : WithoutCatchAll(c).score = 100

\* C11: an address that is empty or holds no @ is INVALID with the
\* malformed-address reason, and the call sends no DNS query and opens no
\* SMTP connection.
C11_MalformedIsInvalid ==
    (DcDone /\ (dc_email = "" \/ Positions(dc_email, "@") = {})) =>
        /\ dc_out.status = "INVALID"
        /\ dc_out.reasons = <<"Malformed Address">>
        /\ dc_out.dns = <<>>
        /\ dc_out.smtp = <<>>

\* Scenario C: no @ in the address
C11_Witness ==
    /\ DcDone /\ dc_email = "bad-address"
    /\ dc_out.status = "INVALID" /\ dc_out.score = 0
    /\ dc_out.reasons = <<"Malformed Address">>
    /\ dc_out.dns = <<>> /\ dc_out.smtp = <<>>

\* the local part of a well-formed address, as line 114 takes it
UserOf(email) == strip(split(email, "@")[1])

\* the domain of a well-formed address, as line 114 takes it
DomainOf(email) == strip(split(email, "@")[2])

\* the address fails the syntax check as the claim C12 lists it
SyntaxFails(email) ==
    \/ ~WellFormed(email)
    \/ Len(UserOf(email)) > 64
    \/ Len(email) > 254
    \/ ~LocalOk(UserOf(email))

\* C12: an address that fails the syntax check is INVALID, and no DNS query
\* or SMTP connection is made for it.
C12_SyntaxFailureIsInvalid ==
    (DcDone /\ SyntaxFails(dc_email)) =>
        /\ dc_out.status = "INVALID"
        /\ dc_out.dns = <<>>
        /\ dc_out.smtp = <<>>

\* C13: an address of a disposable domain is INVALID whatever the DNS, TXT
\* and SMTP results are.
C13_DisposableIsInvalid ==
    (/\ DcDone
     /\ WellFormed(dc_email)
     /\ DomainOf(dc_email) \in DISPOSABLE_DOMAINS) =>
        dc_out.status = "INVALID"

\* C14: the status follows the thresholds 70 and 30.
C14_Thresholds70 ==
    DcDone =>
        dc_out.status = (IF dc_out.score >= 70 THEN "VALID"
                         ELSE IF dc_out.score >= 30 THEN "RISKY"
                         ELSE "INVALID")

\* C15: the score of every returned tuple is an integer of 0..100.
C15_ScoreInRange == DcDone => dc_out.score \in 0..100

\* the accumulated score leaves the range on both sides: 135 for a clean
\* address with every bonus, and -105 for a disposable domain with an illegal
\* local part and a refused connection
C15_Witness ==
    /\ DcDone
    /\ dc_net.mx = "ok" /\ dc_net.txt = "ok"
    /\ \/ /\ dc_email = "john@gmail.com"
          /\ dc_net.fail_at = "none" /\ dc_net.code = 250 /\ dc_net.f_code # 250
          /\ dc_out.score = 100
       \/ /\ dc_email = "jo hn@mailinator.com"
          /\ dc_net.fail_at = "connect" /\ dc_net.exc = "other"
          /\ dc_out.score = 0

\* the same call at another reading of the clock
AtClock(t) == deep_check(dc_email, [dc_net EXCEPT !.now = t])

\* the random sibling address the call probes at the clock reading t
SiblingAt(t) ==
    Wire("rcpt2", dc_email, DomainOf(dc_email), dc_out.provider, t)

\* C16: with the address and every DNS and SMTP reply fixed, the score and
\* the status do not depend on the reading of the clock the random local part
\* is made from (deep_check reads nothing else: no state of the worker or of
\* the dispatcher).
C16_Deterministic ==
    DcDone =>
        \A t \in Clock :
            /\ AtClock(t).score = dc_out.score
            /\ AtClock(t).status = dc_out.status

\* two calls that probed different random addresses and got the same replies
C16_Witness ==
    /\ DcDone
    /\ SeqHas(dc_out.smtp, "rcpt2") /\ StepDone(dc_net, "rcpt2")
    /\ \E t \in Clock :
          /\ SiblingAt(t) # SiblingAt(dc_net.now)
          /\ AtClock(t).score = dc_out.score
          /\ AtClock(t).status = dc_out.status

\* the order the steps of a session are to come in
SessionOrder == <<"connect", "helo", "mail", "rcpt", "rcpt2", "quit", "close">>

OrderNo(step) == CHOOSE i \in 1..Len(SessionOrder) : SessionOrder[i] = step

\* what the session of the call put on the wire, step by step
Commands ==
    [i \in 1..Len(dc_out.smtp) |->
        Wire(dc_out.smtp[i], dc_email, DomainOf(dc_email), dc_out.provider, dc_net.now)]

\* C17: the steps of a session come in the order connect, HELO, MAIL FROM,
\* RCPT TO candidate, RCPT TO random address, QUIT, close; a step is tried
\* only after all the steps before it succeeded; a connection that was
\* opened is closed whatever step fails; no DATA command is sent.
C17_SessionOrder ==
    (DcDone /\ dc_out.smtp # <<>>) =>
        LET s == dc_out.smtp IN
        /\ s[1] = "connect"
        /\ \A i \in 1..Len(s) : s[i] \in {SessionOrder[k] : k \in 1..Len(SessionOrder)}
        /\ \A i, j \in 1..Len(s) : i < j => OrderNo(s[i]) < OrderNo(s[j])
        /\ \A k \in 2..5 :
              SeqHas(s, SessionOrder[k]) =>
                  /\ SeqHas(s, SessionOrder[k - 1])
                  /\ StepDone(dc_net, SessionOrder[k - 1])
        /\ StepDone(dc_net, "connect") =>
              /\ s[Len(s)] = "close"
              /\ s[Len(s) - 1] = "quit"
        /\ \A i \in 1..Len(s) : lower(Commands[i].verb) # "data"
        /\ Cardinality({i \in 1..Len(s) : Commands[i].verb = "rcpt"}) <= 2

\* a session whose RCPT TO for the candidate raises: closed all the same,
\* the random address never probed
C17_Witness ==
    /\ DcDone
    /\ dc_net.fail_at = "rcpt"
    /\ dc_out.smtp = <<"connect", "helo", "mail", "rcpt", "quit", "close">>
    /\ Commands[4] = [verb |-> "rcpt", arg |-> "TO:<" \o dc_email \o ">"]

\* the call returned through one of the early returns of lines 151 and 191
ShortCircuited ==
    \/ dc_out.reasons = <<"Domain does not exist or has no MX records">>
    \/ dc_out.reasons = <<"User does not exist (Bounced)">>

\* C22: the length rule fires for an address of more than 254 characters and
\* for no other: 255 characters get the length reason (and its penalty), 254
\* characters get none.
C22_LengthBoundary ==
    (DcDone /\ WellFormed(dc_email)) =>
        /\ SeqHas(ClassifierReasons(dc_email), "Total length exceeds RFC limit")
               <=> Len(dc_email) > 254
        /\ ~ShortCircuited =>
              (SeqHas(dc_out.reasons, "Total length exceeds RFC limit")
                  <=> Len(dc_email) > 254)
        /\ (dc_email = Email255 /\ dc_net.mx = "Error" /\ dc_net.txt = "fail") =>
              /\ dc_out.score = 35
              /\ deep_check(Email254, dc_net).score = 75

\* 255 characters: the reason and 40 points less than the address of 254
\* characters, which has no length reason
C22_Witness ==
    /\ DcDone /\ dc_email = Email255 /\ Len(dc_email) = 255
    /\ dc_net.mx = "Error" /\ dc_net.txt = "fail"
    /\ dc_out.reasons[1] = "Total length exceeds RFC limit"
    /\ dc_out.score = 35
    /\ Len(Email254) = 254
    /\ deep_check(Email254, dc_net).score = 75
    /\ ~SeqHas(deep_check(Email254, dc_net).reasons, "Total length exceeds RFC limit")

\* the session of the call raised at one of its steps
SessionRaised ==
    DcDone /\ dc_out.smtp # <<>> /\ dc_net.fail_at # "none"

\* the reason of lines 183 and 185 for what was raised
FailureReason ==
    IF dc_net.exc = "timeout" THEN "SMTP Server Timeout"
    ELSE "Connection Refused: " \o dc_net.exc

\* C26: whatever step of the SMTP session fails, the returned tuple carries
\* the failure reason.
C26_TransportFailureReported ==
    SessionRaised => SeqHas(dc_out.reasons, FailureReason)

\* the rules of groups 4 and 5 that fired in the call: the MX bonus or
\* penalty, the TXT bonus or penalty, the session failure, the 250 bonus or
\* the greylisting penalty, the catch-all penalty
ProbeRulesFired ==
    LET probed == dc_net.mx = "ok"
        code   == IF probed /\ StepDone(dc_net, "rcpt") THEN dc_net.code ELSE 0
    IN  (IF SeqHas(dc_out.dns, "MX") THEN 1 ELSE 0)
      + (IF SeqHas(dc_out.dns, "TXT") THEN 1 ELSE 0)
      + (IF probed /\ dc_net.fail_at # "none" THEN 1 ELSE 0)
      + (IF code \in {250, 450, 451, 550} THEN 1 ELSE 0)
      + (IF dc_out.is_catchall THEN 1 ELSE 0)

\* C28: the reasons hold an entry for every rule that fired, in the order of
\* evaluation: the rules of groups 1-3 first, then one entry for each rule of
\* groups 4 and 5, bonuses included, also when the call returns early.
C28_ReasonsRecordEveryRule ==
    (DcDone /\ WellFormed(dc_email)) =>
        LET cls == ClassifierReasons(dc_email)
        IN  /\ Len(dc_out.reasons) >= Len(cls) + ProbeRulesFired
            /\ SubSeq(dc_out.reasons, 1, Len(cls)) = cls

\* the call returned from one of its four short-circuit returns: a malformed
\* address or one with several @ (lines 109, 112), NXDOMAIN or no answer to
\* the MX query (line 151), 550 to the RCPT of the candidate (line 191)
ShortCircuitReturn ==
    \/ ~WellFormed(dc_email)
    \/ WellFormed(dc_email) /\ dc_net.mx \in {"NXDOMAIN", "NoAnswer"}
    \/ /\ WellFormed(dc_email)
       /\ SeqHas(dc_out.smtp, "rcpt")
       /\ StepDone(dc_net, "rcpt")
       /\ dc_net.code = 550

\* C33: the status of a verdict is the one the code's thresholds give its
\* own score: VALID exactly when score >= 75, RISKY exactly when
\* 30 <= score < 75, INVALID exactly when score < 30; and every
\* short-circuit return carries score 0 with INVALID.
C33_StatusMatchesScore ==
    DcDone =>
        /\ dc_out.status = "VALID" <=> dc_out.score >= 75
        /\ dc_out.status = "RISKY" <=> (30 <= dc_out.score /\ dc_out.score < 75)
        /\ dc_out.status = "INVALID" <=> dc_out.score < 30
        /\ ShortCircuitReturn => (dc_out.score = 0 /\ dc_out.status = "INVALID")

\* the final evaluation gives a score on the threshold itself: 75 is VALID
C33_Witness ==
    /\ DcDone
    /\ ~ShortCircuitReturn
    /\ dc_out.score = 75
    /\ dc_out.status = "VALID"

----------------------------------------------------------------------------
(* Properties of the dispatcher of runner.py *)

\* the distinct, trimmed, non-blank addresses of the latest batch
Submitted == {strip(e) : e \in batch} \ {""}

\* occurrences of the address e in a list of items or verdicts
CountIn(seq, e) == Cardinality({i \in 1..Len(seq) : seq[i].email = e})

\* copies in the bag inflight of the items of the set S
RECURSIVE Copies(_)
Copies(S) ==
    IF S = {} THEN 0
    ELSE LET it == CHOOSE x \in S : TRUE
         IN  CopiesIn(it, inflight) + Copies(S \ {it})

\* occurrences of the address e among the addresses being probed
CountInflight(e) == Copies({it \in BagToSet(inflight) : it.email = e})

\* every address queued, probed or reported belongs to the latest run
NoOverlap ==
    /\ \A i \in 1..Len(VERIFY_QUEUE) : VERIFY_QUEUE[i].run = run
    /\ \A it \in BagToSet(inflight) : it.run = run
    /\ \A i \in 1..Len(RESULTS) : RESULTS[i].run = run

\* C1: in a run that no other run overlaps, every distinct trimmed non-blank
\* submitted address is queued, probed or reported exactly once and nothing
\* else is, v_total is their number, and once v_done = v_total RESULTS holds
\* exactly one verdict for each of them.
C1_ExactlyOneVerdict ==
    (run > 0 /\ NoOverlap) =>
        /\ STATS.v_total = Cardinality(Submitted)
        /\ \A e \in Submitted :
              CountIn(VERIFY_QUEUE, e) + CountInflight(e) + CountIn(RESULTS, e) = 1
        /\ \A i \in 1..Len(VERIFY_QUEUE) : VERIFY_QUEUE[i].email \in Submitted
        /\ \A it \in BagToSet(inflight) : it.email \in Submitted
        /\ \A i \in 1..Len(RESULTS) : RESULTS[i].email \in Submitted
        /\ STATS.v_done = STATS.v_total =>
              /\ VERIFY_QUEUE = <<>>
              /\ inflight = EmptyBag
              /\ Len(RESULTS) = Cardinality(Submitted)

\* a batch with two spellings of one malformed address, completed with the
\* one verdict
C1_Witness ==
    /\ run > 0 /\ NoOverlap
    /\ Cardinality(batch) = 2 /\ Cardinality(Submitted) = 1
    /\ STATS.v_total = 1 /\ STATS.v_done = 1
    /\ Len(RESULTS) = 1 /\ RESULTS[1].reasons = "Malformed Address"

\* the address as the claim C30 normalizes it: trimmed and lower-cased
Normalized(e) == lower(strip(e))

\* the items of the latest run that are queued, being probed or reported
LatestEmails ==
    {VERIFY_QUEUE[i].email : i \in {j \in 1..Len(VERIFY_QUEUE) : VERIFY_QUEUE[j].run = run}}
    \cup {it.email : it \in {x \in BagToSet(inflight) : x.run = run}}
    \cup {RESULTS[i].email : i \in {j \in 1..Len(RESULTS) : RESULTS[j].run = run}}

\* C30: submitted addresses that differ only in letter case or surrounding
\* whitespace count once, and the address queued and reported for them is the
\* trimmed, lower-cased one.
C30_CaseAndSpaceNormalized ==
    run > 0 =>
        /\ STATS.v_total = Cardinality({Normalized(e) : e \in batch} \ {""})
        /\ \A e \in LatestEmails : e = Normalized(e)

\* C2: no verdict of an earlier run is in RESULTS once a new run has started,
\* and the counters count the verdicts of the latest run only.
C2_NoVerdictOfSupersededRun ==
    /\ \A i \in 1..Len(RESULTS) : RESULTS[i].run = run
    /\ STATS.v_done = Cardinality({i \in 1..Len(RESULTS) : RESULTS[i].run = run})

\* C3: v_done never exceeds v_total.
C3_DoneWithinTotal == STATS.v_done <= STATS.v_total

\* the other half of C3: between two start_v calls v_done does not decrease
C3_DoneMonotone == [][run' = run => STATS'.v_done >= STATS.v_done]_vars

C21_WorkersExit ==
    \A r \in 1..MaxRuns :
        /\ (/\ run = r /\ STATS.v_done >= STATS.v_total
             /\ VERIFY_QUEUE = <<>> /\ inflight = EmptyBag) ~>
               (run # r \/ nworkers = 0)
        /\ (run = r /\ r > 1) ~>
               (run # r \/ nworkers <= Spawned(STATS.v_total))

\* C20: although a worker thread may die holding an address, a run that has
\* not reached v_done = v_total reaches it (the address is requeued or gets a
\* verdict) unless a later run replaces it first.
C20_RunCompletesDespiteWorkerDeath ==
    \A r \in 1..MaxRuns :
        (run = r /\ STATS.v_done < STATS.v_total) ~>
            (run # r \/ STATS.v_done >= STATS.v_total)

\* C23: the live worker threads never outnumber CONCURRENT_VERIFIERS.
C23_PoolBounded == nworkers <= CONCURRENT_VERIFIERS

----------------------------------------------------------------------------
(* Properties of the with LOCK blocks *)

\* C24: a generator suspended at a yield, waiting for its consumer, does not
\* hold LOCK, so a worker with a verdict to append and the handler of start_v
\* can enter their with blocks.
C24_NoLockAcrossYield ==
    \A i \in 1..MaxSubs :
        gen[i].at # "none" =>
            /\ GenOf(i) \notin LOCK
            /\ inflight # EmptyBag => ENABLED LockAppend
            /\ run < MaxRuns => ENABLED LockStartV

\* C25: at most one thread is inside a with LOCK block, and RESULTS and the
\* STATS counters change only in a step of the thread that is inside.
C25_MutationsUnderLock ==
    /\ [](Cardinality(LOCK) <= 1)
    /\ [][(RESULTS' # RESULTS \/ STATS' # STATS) =>
              /\ Cardinality(LOCK) = 1
              /\ \A t \in LOCK : t.who # "gen"]_vars

\* a worker is inside its with block while another worker, its verdict
\* ready, waits to enter
C25_Witness ==
    /\ Cardinality(LOCK) = 1
    /\ \E t \in LOCK : t.who = "verification_worker"
    /\ BagCardinality(inflight) = 2
    /\ ~ENABLED LockAppend

\* the INSERTs made at the present value of run for the item of a verdict
InsertsFor(v) ==
    {k \in 1..Len(db) : db[k].email = v.email /\ db[k].run = v.run /\ db[k].at = run}

\* C27: every verdict in RESULTS has exactly one INSERT, made in the step
\* that appended it, and every INSERT has its verdict, whether it succeeded
\* or failed; the step of an INSERT appends one verdict, counts it, leaves
\* the with block and keeps the worker thread.
C27_HookOncePerVerdict ==
    /\ [](\A i \in 1..Len(RESULTS) : Cardinality(InsertsFor(RESULTS[i])) = 1)
    /\ [](\A k \in 1..Len(db) :
            db[k].at = run =>
                Cardinality({i \in 1..Len(RESULTS) :
                                /\ RESULTS[i].email = db[k].email
                                /\ RESULTS[i].run = db[k].run}) = 1)
    /\ [][db' # db =>
              /\ Len(db') = Len(db) + 1
              /\ Len(RESULTS') = Len(RESULTS) + 1
              /\ STATS'.v_done = STATS.v_done + 1
              /\ LOCK' = {}
              /\ nworkers' = nworkers]_vars

\* an INSERT failed; its verdict is in RESULTS and counted, LOCK is free, and
\* a worker has appended the next verdict since
C27_Witness ==
    /\ Len(db) = 2 /\ ~db[1].ok /\ db[1].at = run /\ db[2].at = run
    /\ Len(RESULTS) = 2 /\ RESULTS[1].email = db[1].email
    /\ STATS.v_done = 2
    /\ LOCK = {}

\* C31: between two start_v calls RESULTS is append-only: every step that
\* is not a start_v keeps every verdict of RESULTS at its position with all
\* of its fields, and the list only grows at its end, whatever the workers
\* and the stream readers do.
C31_AppendOnly ==
    [][run' = run =>
          /\ Len(RESULTS') >= Len(RESULTS)
          /\ SubSeq(RESULTS', 1, Len(RESULTS)) = RESULTS]_vars

\* a stream reader has read the first verdict and a worker has appended a
\* second one since
C31_Witness ==
    /\ Len(RESULTS) = 2
    /\ RESULTS[1] # RESULTS[2]
    /\ \E i \in 1..MaxSubs : streams[i].sent_results = 1 /\ gen[i].at = "none"

\* the verdicts of RESULTS with a status
WithStatus(status) == {i \in 1..Len(RESULTS) : RESULTS[i].status = status}

----------------------------------------------------------------------------
(* Properties of /api/stream *)

\* C18: once the active run has v_done = v_total, every running generator
\* ends, whatever the batch and the mailer flags are.
C18_StreamTerminates ==
    \A i \in 1..MaxSubs :
        (streams[i].state = "open" /\ run > 0 /\ STATS.v_done = STATS.v_total) ~>
            (streams[i].state = "closed" \/ STATS.v_done # STATS.v_total)

\* the result events of the generator i for verdicts appended while it ran
DeliveredOfLog(i) ==
    SelectSeq(streams[i].delivered, LAMBDA v : SeqHas(streams[i].log, v))

\* C19: the verdicts appended while a generator runs are yielded by it once
\* each and in the order of their append, all of them by the time it ends.
C19_EveryVerdictDelivered ==
    \A i \in 1..MaxSubs :
        LET d == DeliveredOfLog(i)
            l == streams[i].log
        IN  /\ Len(d) <= Len(l)
            /\ d = SubSeq(l, 1, Len(d))
            /\ streams[i].state = "closed" => d = l

----------------------------------------------------------------------------
(* Properties of the thread pool of pythonrun.py *)

\* C29: a worker thread sleeps once after every address it completes, before
\* it goes back for the next one.
C29_SleepAfterEveryAddress ==
    \A r \in 1..MaxReqs : threads[r].slept = threads[r].done

\* C5: while a request waits in its joins, one of the worker threads can take
\* a step or the joins can return: no request is left waiting for threads
\* that will never move.
C5_VerifyTerminates ==
    (\E r \in 1..MaxReqs : requests[r] = "joining") => ENABLED PyThreadStep

\* the results of a list for an address
PyCountIn(seq, e) == Cardinality({i \in 1..Len(seq) : seq[i].email = e})

\* the times a request queued an address
PyPut(r, e) == Cardinality({i \in 1..Len(threads[r].put) : threads[r].put[i] = e})

\* C34: the response of a /verify request (the results at the moment its
\* joins have returned) holds one result for every non-blank line of that
\* request and no result of an address another request queued, also when
\* two requests overlap.
C34_ResponseIsOwnLines ==
    [][\A r \in 1..MaxReqs :
          (requests[r] = "joining" /\ requests'[r] = "returned") =>
              /\ \A i \in 1..Len(results) : results[i].req = r
              /\ \A it \in PyItems :
                    PyCountIn(results, it.email) = PyPut(r, it.email)]_vars

============================================================================
